---------------------------- MODULE Spec2Model ----------------------------
(***************************************************************************)
(* socpaperbot (main.py): one invocation fetches the journal feeds, keeps  *)
(* the valid entries, merges them into the JSON archive (combined.json),   *)
(* posts every entry that was not in the archive, and posts one random     *)
(* archived paper when nothing was new.                                    *)
(*                                                                         *)
(* Text is a sequence of one-character strings.  A Python dict whose       *)
(* iteration order the code relies on (results, pull) is a sequence of     *)
(* records with pairwise distinct links; the archive dicts, whose order    *)
(* is never observed, are sets of records with pairwise distinct links.    *)
(* The key of every dict item is the "link" field of its value, as in      *)
(* get_rss_feed (lines 154, 156).                                          *)
(***************************************************************************)
EXTENDS Integers, Sequences, FiniteSets, TLC

(***************************************************************************)
(* Bounds of the model.                                                    *)
(***************************************************************************)
\* number of invocations of the script that are followed
MaxRuns == 2
\* number of entries the feeds hold, all sources together, at one time
MaxEntries == 2

(***************************************************************************)
(* Text helpers.                                                           *)
(***************************************************************************)
Rep(c, n) == [i \in 1..n |-> c]

Drop(s, n) == SubSeq(s, n + 1, Len(s))

\* str.startswith
StartsWith(s, p) == Len(s) >= Len(p) /\ SubSeq(s, 1, Len(p)) = p

UpperChars == <<"A","B","C","D","E","F","G","H","I","J","K","L","M",
                "N","O","P","Q","R","S","T","U","V","W","X","Y","Z">>

LowerChars == <<"a","b","c","d","e","f","g","h","i","j","k","l","m",
                "n","o","p","q","r","s","t","u","v","w","x","y","z">>

LowerChar(c) ==
    IF \E i \in DOMAIN UpperChars : UpperChars[i] = c
    THEN LowerChars[CHOOSE i \in DOMAIN UpperChars : UpperChars[i] = c]
    ELSE c

\* str.lower
Lower(s) == [i \in DOMAIN s |-> LowerChar(s[i])]

IsSpace(c) == c \in {" ", "\n", "\t", "\r"}

RECURSIVE LStrip(_)
LStrip(s) == IF s # <<>> /\ IsSpace(Head(s)) THEN LStrip(Tail(s)) ELSE s

RECURSIVE RStrip(_)
RStrip(s) ==
    IF s # <<>> /\ IsSpace(s[Len(s)]) THEN RStrip(SubSeq(s, 1, Len(s) - 1)) ELSE s

\* str.strip
Strip(s) == LStrip(RStrip(s))

\* str.find: 0-based index of the first occurrence of p in s, -1 when absent
Find(s, p) ==
    LET hits == {i \in 1..(Len(s) - Len(p) + 1) : SubSeq(s, i, i + Len(p) - 1) = p}
    IN  IF hits = {} THEN -1
        ELSE (CHOOSE i \in hits : \A j \in hits : i <= j) - 1

\* str.rfind: 0-based index of the last occurrence of p in s, -1 when absent
RFind(s, p) ==
    LET hits == {i \in 1..(Len(s) - Len(p) + 1) : SubSeq(s, i, i + Len(p) - 1) = p}
    IN  IF hits = {} THEN -1
        ELSE (CHOOSE i \in hits : \A j \in hits : i >= j) - 1

\* Python slice s[a:b] for 0-based a, b that may be negative or out of range
Slice(s, a, b) ==
    LET n  == Len(s)
        a1 == IF a < 0 THEN (IF a + n < 0 THEN 0 ELSE a + n) ELSE (IF a > n THEN n ELSE a)
        b1 == IF b < 0 THEN (IF b + n < 0 THEN 0 ELSE b + n) ELSE (IF b > n THEN n ELSE b)
    IN  SubSeq(s, a1 + 1, b1)

\* re.sub(r"<[^>]+>", "", text): every leftmost match of a "<", one or more
\* characters other than ">", and the next ">" is removed; "<>" is no match
RECURSIVE StripTags(_)
StripTags(s) ==
    LET Closes(i, j) == s[j] = ">" /\ \A m \in (i + 1)..(j - 1) : s[m] # ">"
        starts == {i \in 1..Len(s) :
                      s[i] = "<" /\ \E j \in (i + 2)..Len(s) : Closes(i, j)}
    IN  IF starts = {} THEN s
        ELSE LET i == CHOOSE i \in starts : \A n \in starts : i <= n
                 j == CHOOSE j \in (i + 2)..Len(s) : Closes(i, j)
             IN  SubSeq(s, 1, i - 1) \o StripTags(Drop(s, j))

\* re.sub(r"^.*?\.", "", text, 1): the shortest prefix that ends in "." and
\* holds no newline before it ("." does not match a newline)
StripLead(s) ==
    LET dots == {i \in 1..Len(s) : s[i] = "." /\ \A m \in 1..(i - 1) : s[m] \notin {".", "\n"}}
    IN  IF dots = {} THEN s ELSE Drop(s, CHOOSE i \in dots : TRUE)


(***************************************************************************)
(* Dicts.                                                                  *)
(***************************************************************************)
\* the keys of an ordered dict (a sequence of records)
SeqKeys(d) == {d[i].link : i \in DOMAIN d}

\* d[rec.link] = rec on an ordered dict: an existing key keeps its place
SeqPut(d, rec) ==
    IF \E i \in DOMAIN d : d[i].link = rec.link
    THEN [d EXCEPT ![CHOOSE i \in DOMAIN d : d[i].link = rec.link] = rec]
    ELSE Append(d, rec)

\* d.update(other) on ordered dicts
RECURSIVE SeqUpdate(_, _)
SeqUpdate(d, other) ==
    IF other = <<>> THEN d ELSE SeqUpdate(SeqPut(d, Head(other)), Tail(other))

\* the keys of an archive dict (a set of records)
Keys(a) == {r.link : r \in a}

\* a[rec.link] = rec on an archive dict
Put(a, rec) == {r \in a : r.link # rec.link} \cup {rec}

(***************************************************************************)
(* The feed table, lines 134-144.  One journal of each cleaning rule of    *)
(* clean_abstract is kept, in the order of the table.                      *)
(***************************************************************************)
urls == <<"American Sociological Review", "Social Forces", "Sociological Science">>

Journals == {urls[i] : i \in DOMAIN urls}

\* shortest title and description is_valid_paper admits
MinLen == 50

(***************************************************************************)
(* is_valid_paper, lines 166-176.                                          *)
(***************************************************************************)
\* is_valid_paper as it would be without title.lower() (line 168)
is_valid_paper_case_sensitive(title, description) ==
    /\ Len(title) >= MinLen
    /\ Len(description) >= MinLen
    /\ ~StartsWith(title, <<"r","e","v","i","e","w">>)
    /\ ~StartsWith(title, <<"c","o","r","r","i","g","e","n","d","u","m">>)

is_valid_paper(title, description) ==
    LET title_lower == Lower(title)
    IN  /\ Len(title) >= MinLen
        /\ Len(description) >= MinLen
        /\ ~StartsWith(title_lower, <<"r","e","v","i","e","w">>)
        /\ ~StartsWith(title_lower, <<"c","o","r","r","i","g","e","n","d","u","m">>)

(***************************************************************************)
(* clean_abstract, lines 179-195.  The slice of line 192 is evaluated and  *)
(* dropped: the statement assigns nothing.                                 *)
(***************************************************************************)
clean_abstract(text, journal) ==
    LET t1 == StripTags(text)
        t2 == IF journal \in {"Socius", "American Sociological Review (AoP)",
                              "American Sociological Review"}
              THEN StripLead(t1)
              ELSE IF journal = "Sociological Science"
                   THEN LET start  == Find(t1, <<"A","b","s","t","r","a","c","t">>)
                            end    == RFind(t1, <<"C","l","o","s","e">>)
                            unused == Strip(Slice(t1, start + 8, end))
                        IN  t1
                   ELSE t1
    IN  Strip(t2)

(***************************************************************************)
(* get_rss_feed, lines 147-163.  A feed is what feedparser.parse returns   *)
(* for one source: its entries, and the bozo flag feedparser sets, with no *)
(* entries, when the source cannot be fetched or parsed.  An entry is a    *)
(* record holding the fields the feed gave it.                             *)
(***************************************************************************)
\* entry.get(key, "")
EntryGet(entry, key) == IF key \in DOMAIN entry THEN entry[key] ELSE <<>>

FeedItem(entry, k) ==
    [title       |-> EntryGet(entry, "title"),
     link        |-> EntryGet(entry, "link"),
     description |-> EntryGet(entry, "description"),
     journal     |-> k]

\* the dict comprehension of lines 153-161
RECURSIVE FeedDict(_, _)
FeedDict(entries, k) ==
    IF entries = <<>> THEN <<>>
    ELSE SeqUpdate(<<FeedItem(Head(entries), k)>>, FeedDict(Tail(entries), k))

\* get_rss_feed_from as it would be if a source that cannot be fetched ended
\* the loop of line 150
RECURSIVE get_rss_feed_until_bozo(_, _, _)
get_rss_feed_until_bozo(i, fd, acc) ==
    IF i > Len(urls) \/ fd[urls[i]].bozo THEN acc
    ELSE get_rss_feed_until_bozo(i + 1, fd,
                                 SeqUpdate(acc, FeedDict(fd[urls[i]].entries, urls[i])))

RECURSIVE get_rss_feed_from(_, _, _)
get_rss_feed_from(i, fd, acc) ==
    IF i > Len(urls) THEN acc
    ELSE get_rss_feed_from(i + 1, fd, SeqUpdate(acc, FeedDict(fd[urls[i]].entries, urls[i])))

get_rss_feed(fd) == get_rss_feed_from(1, fd, <<>>)

(***************************************************************************)
(* filter_results, lines 198-208.                                          *)
(***************************************************************************)
RECURSIVE filter_results(_)
filter_results(results) ==
    IF results = <<>> THEN <<>>
    ELSE LET v    == Head(results)
             rest == filter_results(Tail(results))
         IN  IF is_valid_paper(v.title, v.description)
             THEN <<[v EXCEPT !.description = clean_abstract(v.description, v.journal)]>>
                  \o rest
             ELSE rest


(***************************************************************************)
(* Inputs: the entries the feeds may hold and the archives a first run may *)
(* find.                                                                   *)
(***************************************************************************)
LinkA == <<"h","t","t","p",":","/","/","x",".","o","r","g","/","a">>
LinkB == <<"h","t","t","p",":","/","/","x",".","o","r","g","/","b">>
LinkC == <<"h","t","t","p",":","/","/","x",".","o","r","g","/","c">>

TitleA  == <<"P","a","p","e","r"," ">> \o Rep("a", MinLen - 6)
TitleA2 == <<"O","t","h","e","r"," ">> \o Rep("a", MinLen - 6)
TitleB  == <<"S","t","u","d","y"," ">> \o Rep("b", MinLen - 6)
TitleC  == <<"E","s","s","a","y"," ">> \o Rep("c", MinLen - 6)

\* a lead sentence, then MinLen + 10 characters of abstract
DescPlain == <<"I","n","t","r","o","."," ">> \o Rep("x", MinLen + 10)
\* MinLen + 2 characters as fetched, MinLen - 5 once the tags are gone
DescTagged == <<"<","p",">">> \o Rep("y", MinLen - 5) \o <<"<","/","p",">">>

EntryA      == [title |-> TitleA,  link |-> LinkA, description |-> DescPlain]
\* the entry of LinkA with another title and another description
EntryA2     == [title |-> TitleA2, link |-> LinkA, description |-> DescTagged]
EntryB      == [title |-> TitleB,  link |-> LinkB, description |-> DescPlain]
\* an entry with a title of MinLen - 1 characters
EntryCShort == [title |-> SubSeq(TitleC, 1, MinLen - 1), link |-> LinkC,
                description |-> DescPlain]

Entries == {EntryA, EntryA2, EntryB, EntryCShort}

RECURSIVE SeqsUpTo(_, _)
SeqsUpTo(S, n) ==
    IF n = 0 THEN {<<>>}
    ELSE LET shorter == SeqsUpTo(S, n - 1)
         IN  shorter \cup {Append(q, x) : q \in {t \in shorter : Len(t) = n - 1}, x \in S}

\* what feedparser.parse may return for one source
FeedResults ==
    {[bozo |-> TRUE, entries |-> <<>>]}
        \cup {[bozo |-> FALSE, entries |-> q] : q \in SeqsUpTo(Entries, MaxEntries)}

RECURSIVE SumLen(_, _)
SumLen(fd, i) == IF i = 0 THEN 0 ELSE Len(fd[urls[i]].entries) + SumLen(fd, i - 1)

Feeds == {fd \in [Journals -> FeedResults] : SumLen(fd, Len(urls)) <= MaxEntries}

NoFeed == [k \in Journals |-> [bozo |-> FALSE, entries |-> <<>>]]

\* what get_rss_feed may return
FeedOutcomes == {get_rss_feed(fd) : fd \in Feeds}

\* the archive record filter_results makes of an entry of journal k
Paper(entry, k) == filter_results(<<FeedItem(entry, k)>>)[1]

PaperA == Paper(EntryA, "Social Forces")
PaperB == Paper(EntryB, "American Sociological Review")
PaperC == Paper([title |-> TitleC, link |-> LinkC, description |-> DescPlain],
                "Sociological Science")

\* the key of an entry that has no link (line 154)
NoLink == <<>>

Links == {LinkA, LinkB, LinkC, NoLink}

\* combined.json: absent, not parseable, or holding an archive dict
Missing == [state |-> "missing", data |-> {}]
Corrupt == [state |-> "corrupt", data |-> {}]
Stored(a) == [state |-> "ok", data |-> a]

InitFiles ==
    {Missing, Corrupt, Stored({}), Stored({PaperA}), Stored({PaperA, PaperB}),
     Stored({PaperA, PaperB, PaperC})}

(***************************************************************************)
(* State.                                                                  *)
(***************************************************************************)
VARIABLES
    file,       \* combined.json on disk
    pc,         \* where the current run is
    run,        \* number of the current run
    fetched,    \* what feedparser.parse returns per source, where get_rss_feed is
                \* followed on given feeds (SpecFetch)
    results,    \* write_json_from_rss: results
    pull,       \* filtered_results, main's pull
    archive,    \* the archive dict write_json_from_rss loads and main extends
    snapshot,   \* the archive as loaded at the start of the run
    idx,        \* main: position of the loop of line 245 in pull
    new_posts,  \* main: new_posts
    calls,      \* the create_post calls of the current run, in order
    wrote,      \* whether the current run wrote combined.json
    error,      \* the exception that ended the current run, "" when none
    published,  \* links of which a post has succeeded
    newPosted,  \* per link, the number of successful new (non-fallback) posts
    repeat      \* whether the feeds are those of the previous run, which completed

vars == <<file, pc, run, fetched, results, pull, archive, snapshot, idx, new_posts,
          calls, wrote, error, published, newPosted, repeat>>

Running == {"start", "fetched", "filtered", "loaded", "main", "fallback"}

Ended == {"done", "aborted", "crashed"}

\* a first run is about to start, combined.json being one of files
InitWith(files) ==
    /\ file \in files
    /\ pc = "start"
    /\ run = 1
    /\ results = <<>>
    /\ pull = <<>>
    /\ archive = {}
    /\ snapshot = {}
    /\ idx = 1
    /\ new_posts = 0
    /\ calls = <<>>
    /\ wrote = FALSE
    /\ error = ""
    /\ published = Keys(file.data)
    /\ newPosted = [l \in Links |-> 0]
    /\ repeat = FALSE

InitRun == InitWith(InitFiles)

Init == InitRun /\ fetched = NoFeed

(***************************************************************************)
(* write_json_from_rss, lines 211-233, in the steps a crash can separate.  *)
(***************************************************************************)
\* line 212; in a run against unchanged feeds get_rss_feed returns what it
\* returned in the previous run
GetRssFeed ==
    /\ pc = "start"
    /\ results' \in FeedOutcomes
    /\ repeat => results' = results
    /\ pc' = "fetched"
    /\ UNCHANGED <<file, run, fetched, pull, archive, snapshot, idx, new_posts, calls,
                   wrote, error, published, newPosted, repeat>>

\* line 213
FilterResults ==
    /\ pc = "fetched"
    /\ pull' = filter_results(results)
    /\ pc' = "filtered"
    /\ UNCHANGED <<file, run, fetched, results, archive, snapshot, idx, new_posts,
                   calls, wrote, error, published, newPosted, repeat>>

\* LoadArchive as it would be if the file were never read
LoadArchiveEmpty ==
    /\ pc = "filtered"
    /\ file.state # "corrupt"
    /\ archive' = {}
    /\ snapshot' = archive'
    /\ pc' = "loaded"
    /\ UNCHANGED <<file, run, fetched, results, pull, idx, new_posts, calls, wrote,
                   error, published, newPosted, repeat>>

\* lines 215-219: json.load, or {} when the file is absent
LoadArchive ==
    /\ pc = "filtered"
    /\ file.state # "corrupt"
    /\ archive' = IF file.state = "missing" THEN {} ELSE file.data
    /\ snapshot' = archive'
    /\ pc' = "loaded"
    /\ UNCHANGED <<file, run, fetched, results, pull, idx, new_posts, calls, wrote,
                   error, published, newPosted, repeat>>

\* LoadArchiveError as it would be if a file that cannot be parsed were taken
\* for an empty archive
LoadArchiveErrorAsEmpty ==
    /\ pc = "filtered"
    /\ file.state = "corrupt"
    /\ archive' = {}
    /\ snapshot' = archive'
    /\ pc' = "loaded"
    /\ UNCHANGED <<file, run, fetched, results, pull, idx, new_posts, calls, wrote,
                   error, published, newPosted, repeat>>

\* lines 215-219: json.load raises on a file it cannot parse
LoadArchiveError ==
    /\ pc = "filtered"
    /\ file.state = "corrupt"
    /\ pc' = "aborted"
    /\ error' = "JSONDecodeError"
    /\ UNCHANGED <<file, run, fetched, results, pull, archive, snapshot, idx, new_posts,
                   calls, wrote, published, newPosted, repeat>>

\* Merge as it would be without the test of line 225: a fetched item replaces
\* the archived one
RECURSIVE MergeOverwriting(_, _, _)
MergeOverwriting(new_archive, old, items) ==
    IF items = <<>> THEN new_archive
    ELSE MergeOverwriting(Put(new_archive, Head(items)), old, Tail(items))

\* lines 221-226: new_archive = archive.copy(), then the items of
\* filtered_results whose link is not in archive
RECURSIVE Merge(_, _, _)
Merge(new_archive, old, items) ==
    IF items = <<>> THEN new_archive
    ELSE Merge(IF Head(items).link \notin Keys(old)
               THEN Put(new_archive, Head(items))
               ELSE new_archive,
               old, Tail(items))

\* Grew as it would be if line 228 never held: the file is never written
GrewNever(new_archive, old) == FALSE

\* Grew as it would be with >= at line 228: the file is written in every run
GrewOrSame(new_archive, old) == Cardinality(new_archive) >= Cardinality(old)

\* line 228
Grew(new_archive, old) == Cardinality(new_archive) > Cardinality(old)

\* lines 221-233
MergeAndSave ==
    /\ pc = "loaded"
    /\ LET new_archive == Merge(archive, archive, pull)
       IN  IF Grew(new_archive, archive)
           THEN file' = Stored(new_archive) /\ wrote' = TRUE
           ELSE UNCHANGED <<file, wrote>>
    /\ idx' = 1
    /\ new_posts' = 0
    /\ pc' = "main"
    /\ UNCHANGED <<run, fetched, results, pull, archive, snapshot, calls, error,
                   published, newPosted, repeat>>

(***************************************************************************)
(* main, lines 237-265.  create_post (lines 90-130) either returns or      *)
(* raises (raise_for_status, lines 37 and 130).                            *)
(***************************************************************************)
\* number of characters of title, link and description kept, lines 248 and 260
TruncLen == 288

\* "\n #sociology", lines 249 and 262
Hashtag == <<"\n"," ","#","s","o","c","i","o","l","o","g","y">>

\* str.replace("\n", " ")
ReplaceNewlines(s) == [i \in DOMAIN s |-> IF s[i] = "\n" THEN " " ELSE s[i]]

\* post_str as it would be without the slice of lines 248 and 260
post_str_uncut(v) ==
    ReplaceNewlines(
        (v.title \o <<"\n">> \o v.link \o <<"\n">> \o v.description) \o Hashtag)

\* lines 247-251 and 258-264: the text main passes to create_post for paper v
post_str(v) ==
    ReplaceNewlines(
        Slice(v.title \o <<"\n">> \o v.link \o <<"\n">> \o v.description, 0, TruncLen)
            \o Hashtag)

\* a create_post call: the paper, new post or fallback, whether it returned
Call(v, kind, ok) == [link |-> v.link, kind |-> kind, ok |-> ok, text |-> post_str(v)]

\* IsNew as it would be without the test of line 246
IsNewAlways(k, a) == TRUE

\* line 246
IsNew(k, a) == k \notin Keys(a)

\* PostNew as it would be without line 254: new_posts is not incremented
PostNewUncounted ==
    /\ pc = "main"
    /\ idx <= Len(pull)
    /\ LET v == pull[idx]
       IN  /\ IsNew(v.link, archive)
           /\ calls' = Append(calls, Call(v, "new", TRUE))
           /\ published' = published \cup {v.link}
           /\ newPosted' = [newPosted EXCEPT ![v.link] = @ + 1]
           /\ archive' = Put(archive, v)
    /\ idx' = idx + 1
    /\ UNCHANGED <<file, pc, run, fetched, results, pull, snapshot, new_posts, wrote,
                   error, repeat>>

\* lines 245-254, create_post returns
PostNew ==
    /\ pc = "main"
    /\ idx <= Len(pull)
    /\ LET v == pull[idx]
       IN  /\ IsNew(v.link, archive)
           /\ calls' = Append(calls, Call(v, "new", TRUE))
           /\ published' = published \cup {v.link}
           /\ newPosted' = [newPosted EXCEPT ![v.link] = @ + 1]
           /\ archive' = Put(archive, v)
    /\ new_posts' = new_posts + 1
    /\ idx' = idx + 1
    /\ UNCHANGED <<file, pc, run, fetched, results, pull, snapshot, wrote, error,
                   repeat>>

\* PostNewError as it would be if main caught the exception and went on
PostNewErrorCaught ==
    /\ pc = "main"
    /\ idx <= Len(pull)
    /\ IsNew(pull[idx].link, archive)
    /\ calls' = Append(calls, Call(pull[idx], "new", FALSE))
    /\ idx' = idx + 1
    /\ UNCHANGED <<file, pc, run, fetched, results, pull, archive, snapshot, new_posts,
                   wrote, error, published, newPosted, repeat>>

\* lines 245-251, create_post raises
PostNewError ==
    /\ pc = "main"
    /\ idx <= Len(pull)
    /\ IsNew(pull[idx].link, archive)
    /\ calls' = Append(calls, Call(pull[idx], "new", FALSE))
    /\ pc' = "aborted"
    /\ error' = "HTTPError"
    /\ UNCHANGED <<file, run, fetched, results, pull, archive, snapshot, idx, new_posts,
                   wrote, published, newPosted, repeat>>

\* lines 245-246, the link is in archive
SkipArchived ==
    /\ pc = "main"
    /\ idx <= Len(pull)
    /\ ~IsNew(pull[idx].link, archive)
    /\ idx' = idx + 1
    /\ UNCHANGED <<file, pc, run, fetched, results, pull, archive, snapshot, new_posts,
                   calls, wrote, error, published, newPosted, repeat>>

\* Python's a & b on naturals
RECURSIVE BitAnd(_, _)
BitAnd(a, b) ==
    IF a = 0 \/ b = 0 THEN 0
    ELSE (a % 2) * (b % 2) + 2 * BitAnd(a \div 2, b \div 2)

\* a bool as the int it is
BoolInt(b) == IF b THEN 1 ELSE 0

\* FallbackCondition as it would be if line 255 held in every run
FallbackAlways(n, a) == TRUE

\* line 255: new_posts == 0 & (len(archive) > 2), where & binds tighter than ==
FallbackCondition(n, a) == n = BitAnd(0, BoolInt(Cardinality(a) > 2))

\* line 255 is false: main returns
Finish ==
    /\ pc = "main"
    /\ idx > Len(pull)
    /\ ~FallbackCondition(new_posts, archive)
    /\ pc' = "done"
    /\ UNCHANGED <<file, run, fetched, results, pull, archive, snapshot, idx, new_posts,
                   calls, wrote, error, published, newPosted, repeat>>

\* lines 255-265, create_post returns
FallbackPost ==
    /\ pc = "main"
    /\ idx > Len(pull)
    /\ FallbackCondition(new_posts, archive)
    /\ \E random_paper \in archive :
          /\ calls' = Append(calls, Call(random_paper, "fallback", TRUE))
          /\ published' = published \cup {random_paper.link}
    /\ pc' = "done"
    /\ UNCHANGED <<file, run, fetched, results, pull, archive, snapshot, idx, new_posts,
                   wrote, error, newPosted, repeat>>

\* lines 255-264, create_post raises
FallbackPostError ==
    /\ pc = "main"
    /\ idx > Len(pull)
    /\ FallbackCondition(new_posts, archive)
    /\ \E random_paper \in archive :
          calls' = Append(calls, Call(random_paper, "fallback", FALSE))
    /\ pc' = "aborted"
    /\ error' = "HTTPError"
    /\ UNCHANGED <<file, run, fetched, results, pull, archive, snapshot, idx, new_posts,
                   wrote, published, newPosted, repeat>>

\* lines 255-257: random.choice raises on an empty list
FallbackIndexError ==
    /\ pc = "main"
    /\ idx > Len(pull)
    /\ FallbackCondition(new_posts, archive)
    /\ archive = {}
    /\ pc' = "aborted"
    /\ error' = "IndexError"
    /\ UNCHANGED <<file, run, fetched, results, pull, archive, snapshot, idx, new_posts,
                   calls, wrote, published, newPosted, repeat>>

(***************************************************************************)
(* The process around main: it may be killed between two steps, and a      *)
(* scheduler starts the script again once the previous run has ended.      *)
(***************************************************************************)
\* the process dies; its memory is gone, combined.json stays
Crash ==
    /\ pc \in Running
    /\ pc' = "crashed"
    /\ results' = <<>>
    /\ pull' = <<>>
    /\ archive' = {}
    /\ idx' = 1
    /\ new_posts' = 0
    /\ UNCHANGED <<file, run, fetched, snapshot, calls, wrote, error, published,
                   newPosted, repeat>>

\* lines 269-270, the next invocation; the feeds have changed or, after a
\* run that completed, may be what they were
NextRun ==
    /\ pc \in Ended
    /\ run < MaxRuns
    /\ run' = run + 1
    /\ pc' = "start"
    /\ \E same \in {FALSE, pc = "done"} :
          /\ repeat' = same
          /\ results' = IF same THEN results ELSE <<>>
    /\ pull' = <<>>
    /\ archive' = {}
    /\ snapshot' = {}
    /\ idx' = 1
    /\ new_posts' = 0
    /\ calls' = <<>>
    /\ wrote' = FALSE
    /\ error' = ""
    /\ UNCHANGED <<file, fetched, published, newPosted>>

Next ==
    \/ GetRssFeed
    \/ FilterResults
    \/ LoadArchive
    \/ LoadArchiveError
    \/ MergeAndSave
    \/ PostNew
    \/ PostNewError
    \/ SkipArchived
    \/ Finish
    \/ FallbackPost
    \/ FallbackPostError
    \/ FallbackIndexError
    \/ Crash
    \/ NextRun

Spec == Init /\ [][Next]_vars


(***************************************************************************)
(* Properties of a sequence of runs (Spec).                                *)
(***************************************************************************)
\* the positions of calls that are new posts
NewCalls == {i \in DOMAIN calls : calls[i].kind = "new"}

\* C1: a paper whose link is a key of the archive loaded at the start of the
\* run is never passed to create_post as a new post in that run.
C1_Dedup == \A i \in NewCalls : calls[i].link \notin Keys(snapshot)

\* a run has met a fetched paper that was archived, and has made a new post
C1_Witness ==
    /\ pc = "done"
    /\ \E i \in DOMAIN pull : pull[i].link \in Keys(snapshot)
    /\ \E i \in NewCalls : calls[i].ok

\* C2: at every point of every run, every link in the archive file has been
\* published.
C2_ArchivedIsPublished == file.state = "ok" => Keys(file.data) \subseteq published

\* C3: over the runs, crashed and aborted ones included, no link is published
\* as a new post more than once.
C3_AtMostOnce == \A l \in Links : newPosted[l] <= 1

\* a later run has gone through a fetched paper that an earlier run posted
C3_Witness ==
    /\ run > 1
    /\ pc = "done"
    /\ \E i \in DOMAIN pull :
          /\ newPosted[pull[i].link] = 1
          /\ \A j \in NewCalls : calls[j].link # pull[i].link

\* C4: a run against the feeds of the previous, completed run makes no new
\* post, keeps new_posts at 0 and does not write the archive file.
C4_Idempotent == repeat => (new_posts = 0 /\ NewCalls = {} /\ ~wrote)

\* a second run on unchanged feeds that hold valid papers has completed
C4_Witness == repeat /\ pc = "done" /\ pull # <<>>

\* C5: a fallback post is made only in a run with no new post and an archive
\* of more than 2 entries.
C5_FallbackNeedsThree ==
    \A i \in DOMAIN calls :
        calls[i].kind = "fallback" => (NewCalls = {} /\ Cardinality(snapshot) > 2)

\* C6: a create_post that raises ends the run: it is the last call of the
\* run, and every paper posted before it is in the archive file.
C6_PostErrorAborts ==
    \A i \in DOMAIN calls :
        ~calls[i].ok =>
            /\ i = Len(calls)
            /\ pc = "aborted"
            /\ error = "HTTPError"
            /\ \A j \in 1..(i - 1) :
                  /\ file.state = "ok"
                  /\ \E n \in DOMAIN pull :
                        pull[n].link = calls[j].link /\ pull[n] \in file.data

\* a run has posted one paper and was aborted by the next create_post
C6_Witness ==
    /\ pc = "aborted"
    /\ Len(calls) = 2
    /\ calls[1].ok
    /\ ~calls[2].ok

\* C7: a record of the archive file is never removed and never changed.
C7_AppendOnly ==
    [][file.state = "ok" =>
          /\ file'.state = "ok"
          /\ \A r \in file.data : {q \in file'.data : q.link = r.link} = {r}]_vars

\* a run has fetched, under an archived link, a paper with another title
C7_Witness ==
    /\ pc = "done"
    /\ file.state = "ok"
    /\ \E i \in DOMAIN pull : \E r \in file.data :
          r.link = pull[i].link /\ r.title # pull[i].title

\* C8: the archive file is written exactly in the runs whose merge inserted a
\* link that the loaded archive did not hold, and by no other step.
C8_WriteIffGrew ==
    [][LET inserted == \E i \in DOMAIN pull : pull[i].link \notin Keys(archive)
       IN  IF pc = "loaded" /\ pc' = "main"
           THEN /\ wrote' = inserted
                /\ inserted => (file'.state = "ok" /\ file' # file)
                /\ ~inserted => file' = file
           ELSE file' = file]_vars

\* a run whose fetched papers were all archived has left the file alone
C8_Witness ==
    /\ pc = "main"
    /\ pull # <<>>
    /\ snapshot # {}
    /\ ~wrote

\* C9: filter_results admits an item exactly when its title and its cleaned
\* description pass is_valid_paper, so that every admitted paper has a cleaned
\* description of at least 50 characters.
C9_FilterOnCleaned ==
    pc \in {"filtered", "loaded", "main", "done", "aborted"} =>
        /\ \A i \in DOMAIN pull : Len(pull[i].description) >= MinLen
        /\ \A i \in DOMAIN results :
              (results[i].link \in SeqKeys(pull))
                  <=> is_valid_paper(results[i].title,
                                     clean_abstract(results[i].description,
                                                    results[i].journal))


\* C12: while the archive file cannot be parsed, every run that reaches the
\* load ends there with the error of json.load, no run writes the file or
\* makes a create_post call, and no step changes the file.
C12_CorruptArchiveFails ==
    /\ [](file.state = "corrupt" =>
             /\ pc \in {"start", "fetched", "filtered", "aborted", "crashed"}
             /\ pc = "aborted" => error = "JSONDecodeError"
             /\ calls = <<>>
             /\ published = {}
             /\ ~wrote)
    /\ [][file.state = "corrupt" => file' = file]_vars

\* a run that fetched valid papers has failed on the archive file
C12_Witness ==
    /\ file.state = "corrupt"
    /\ pc = "aborted"
    /\ error = "JSONDecodeError"
    /\ pull # <<>>

\* C19: a run makes at most one fallback post, makes it only when it has made
\* no new post, and takes its paper from the archive loaded at the start of
\* the run.
C19_FallbackExclusive ==
    LET Fallbacks == {i \in DOMAIN calls : calls[i].kind = "fallback"}
    IN  /\ Cardinality(Fallbacks) <= 1
        /\ Fallbacks # {} => NewCalls = {} /\ new_posts = 0
        /\ NewCalls # {} /\ pc \in Ended => Fallbacks = {}
        /\ \A i \in Fallbacks :
              /\ i = Len(calls)
              /\ \E r \in snapshot : r.link = calls[i].link /\ post_str(r) = calls[i].text

\* a run that found every fetched paper archived has made a fallback post,
\* and an earlier run has made a new post
C19_Witness ==
    /\ pc = "done"
    /\ pull # <<>>
    /\ \E i \in DOMAIN calls : calls[i].kind = "fallback" /\ calls[i].ok
    /\ \E l \in Links : newPosted[l] = 1


(***************************************************************************)
(* One run on given feeds (SpecFetch): the feeds are drawn at the start,   *)
(* get_rss_feed is applied to them and the run goes on from its result.    *)
(***************************************************************************)
InitFetch == InitRun /\ fetched \in Feeds

\* line 212, on the feeds drawn
GetRssFeedOf ==
    /\ pc = "start"
    /\ results' = get_rss_feed(fetched)
    /\ pc' = "fetched"
    /\ UNCHANGED <<file, run, fetched, pull, archive, snapshot, idx, new_posts, calls,
                   wrote, error, published, newPosted, repeat>>

NextFetch ==
    \/ GetRssFeedOf
    \/ FilterResults
    \/ LoadArchive
    \/ LoadArchiveError
    \/ MergeAndSave
    \/ PostNew
    \/ PostNewError
    \/ SkipArchived
    \/ Finish
    \/ FallbackPost
    \/ FallbackPostError
    \/ FallbackIndexError

SpecFetch == InitFetch /\ [][NextFetch]_vars

EntryNoLink == [title |-> TitleB, description |-> DescPlain]

\* an entry the feed gave no title
EntryNoTitle == [link |-> LinkB, description |-> DescPlain]

\* a title that, with the newline after it, leaves TruncLen - 7 characters
TitleLong == <<"L","o","n","g"," ">> \o Rep("t", TruncLen - 13)

\* a description longer than TruncLen
DescLong == <<"I","n","t","r","o","."," ">> \o Rep("z", TruncLen + 5)

EntryLongTitle == [title |-> TitleLong, link |-> LinkB, description |-> DescPlain]

EntryLongDesc == [title |-> TitleC, link |-> LinkC, description |-> DescLong]

RunEntries == {EntryA, EntryNoLink, EntryNoTitle, EntryLongTitle, EntryLongDesc}

\* what feedparser.parse may return for the sources i.., as a tuple in the
\* order of urls, with at most budget entries of E in all
RECURSIVE FeedTuples(_, _, _)
FeedTuples(i, E, budget) ==
    IF i > Len(urls) THEN {<<>>}
    ELSE UNION {{<<r>> \o rest : rest \in FeedTuples(i + 1, E, budget - Len(r.entries))} :
                   r \in {[bozo |-> TRUE, entries |-> <<>>]}
                            \cup {[bozo |-> FALSE, entries |-> q] : q \in SeqsUpTo(E, budget)}}

FeedsOver(E, n) ==
    {[k \in Journals |-> t[CHOOSE i \in DOMAIN urls : urls[i] = k]] :
        t \in FeedTuples(1, E, n)}

\* the feeds that hold two valid entries and one with a short title, three
\* entries in all
ExampleFeeds ==
    {fd \in FeedsOver({EntryA, EntryB, EntryCShort}, 3) :
        /\ SumLen(fd, Len(urls)) = 3
        /\ \A e \in {EntryA, EntryB, EntryCShort} :
              \E k \in Journals : \E i \in DOMAIN fd[k].entries : fd[k].entries[i] = e}

RunFeeds == FeedsOver(RunEntries, MaxEntries) \cup ExampleFeeds

RunFiles ==
    InitFiles \cup {Stored({PaperA, Paper(EntryLongTitle, "Social Forces"),
                            Paper(EntryLongDesc, "American Sociological Review")})}

InitFull == InitWith(RunFiles) /\ fetched \in RunFeeds

SpecRun == InitFull /\ [][NextFetch]_vars

\* C11: an entry that has no link or no title is not filtered in, is in no
\* archive, in memory or on file, and is passed to no create_post call.
C11_MalformedSkipped ==
    /\ \A i \in DOMAIN pull : pull[i].link # NoLink /\ pull[i].title # <<>>
    /\ \A r \in archive \cup file.data : r.link # NoLink /\ r.title # <<>>
    /\ \A i \in DOMAIN calls : calls[i].link # NoLink

\* the links of the create_post calls that are new posts, in call order
NewLinks == [n \in 1..Len(SelectSeq(calls, LAMBDA c : c.kind = "new")) |->
                SelectSeq(calls, LAMBDA c : c.kind = "new")[n].link]

\* the links of the fetched items that is_valid_paper admits and the archive
\* loaded at the start of the run does not hold, in the order of results
ValidNewLinks ==
    LET q == SelectSeq(results,
                       LAMBDA v : /\ is_valid_paper(v.title, v.description)
                                  /\ v.link \notin Keys(snapshot))
    IN  [n \in 1..Len(q) |-> q[n].link]

\* C13: a run that finds no archive file loads an empty archive and, while
\* every create_post returns, does not raise: it ends having posted as new
\* exactly the fetched papers that filter_results admits.
C13_MissingIsEmpty ==
    (file.state = "missing" \/ (wrote /\ snapshot = {})) =>
        /\ pc \in {"loaded", "main", "done", "aborted"} => snapshot = {}
        /\ pc = "aborted" => \E i \in DOMAIN calls : ~calls[i].ok
        /\ pc = "done" =>
              /\ NewLinks = [n \in DOMAIN pull |-> pull[n].link]
              /\ \A i \in DOMAIN calls : calls[i].kind = "new"

\* C14: a run that ends without a failure has posted as new the valid
\* fetched papers that the archive loaded at its start does not hold, once
\* each and in the order they were fetched; every such call returned,
\* new_posts is their number, and the archive in memory and the archive file
\* have grown by that number.
C14_NewPostsExact ==
    pc = "done" =>
        /\ NewLinks = ValidNewLinks
        /\ \A m, n \in DOMAIN NewLinks : m # n => NewLinks[m] # NewLinks[n]
        /\ \A i \in NewCalls : calls[i].ok
        /\ new_posts = Len(ValidNewLinks)
        /\ Cardinality(archive) = Cardinality(snapshot) + Len(ValidNewLinks)
        /\ ValidNewLinks # <<>> =>
              /\ file.state = "ok"
              /\ Cardinality(file.data) = Cardinality(snapshot) + Len(ValidNewLinks)

\* three entries were fetched, one of them invalid, the archive was empty:
\* the run has made two posts and the archive file holds two papers
C14_Witness ==
    /\ pc = "done"
    /\ Len(results) = 3
    /\ \E i \in DOMAIN results : ~is_valid_paper(results[i].title, results[i].description)
    /\ snapshot = {}
    /\ Len(calls) = 2
    /\ new_posts = 2
    /\ Cardinality(file.data) = 2

\* C15: the text of every create_post call, new post or fallback, has at
\* most 300 characters and ends with the hashtag suffix.
C15_TextWithinLimit ==
    \A i \in DOMAIN calls :
        /\ Len(calls[i].text) <= 300
        /\ Len(calls[i].text) >= 12
        /\ SubSeq(calls[i].text, Len(calls[i].text) - 11, Len(calls[i].text))
              = <<" "," ","#","s","o","c","i","o","l","o","g","y">>

\* a post of a paper whose title, link and description exceed the room left
\* has been made with 300 characters
C15_Witness ==
    \E i \in DOMAIN calls : \E v \in archive :
        /\ calls[i].ok
        /\ v.link = calls[i].link
        /\ Len(v.title) + Len(v.link) + Len(v.description) > 300
        /\ Len(calls[i].text) = 300

\* C16: the text of every create_post call holds the whole link of its paper.
\* (The link annotations of parse_urls are substrings of the text.)
C16_LinkIntact ==
    \A i \in DOMAIN calls : Find(calls[i].text, calls[i].link) >= 0


(***************************************************************************)
(* get_rss_feed and filter_results on feeds whose entries try the rules of *)
(* is_valid_paper and of clean_abstract (SpecFilter).                      *)
(***************************************************************************)
\* titles of MinLen - 1 and MinLen characters, titles that start with
\* "review" or "corrigendum" in several cases, and one that holds "review"
\* further on
FilterTitles ==
    {SubSeq(TitleA, 1, MinLen - 1),
     TitleA,
     <<"R","e","v","i","e","w"," ">> \o Rep("r", MinLen),
     <<"R","E","V","I","E","W"," ">> \o Rep("r", MinLen),
     <<"r","e","V","i","E","w",":">> \o Rep("r", MinLen),
     <<"C","o","r","r","i","g","e","n","d","u","m"," ">> \o Rep("c", MinLen),
     <<"c","O","R","R","I","G","E","N","D","U","M"," ">> \o Rep("c", MinLen),
     <<"A"," ","r","e","v","i","e","w"," ">> \o Rep("a", MinLen - 9)}

MarkAbstract == <<"A","b","s","t","r","a","c","t">>

MarkClose == <<"C","l","o","s","e">>

\* the abstract between the two markers
DescMarked == MarkAbstract \o <<" ">> \o Rep("m", MinLen) \o <<" ">> \o MarkClose

\* each marker twice, with text before, between and after
DescMarkedTwice ==
    <<"P","r","e"," ">> \o MarkAbstract \o <<" ">> \o MarkAbstract \o <<" ">>
        \o Rep("m", MinLen) \o <<" ">> \o MarkClose \o <<" ">> \o MarkClose
        \o <<" ","e","n","d">>

\* the markers inside tags' content
DescMarkedTagged ==
    <<"<","h","3",">">> \o MarkAbstract \o <<"<","/","h","3",">"," ">>
        \o Rep("m", MinLen) \o <<" ","<","a",">">> \o MarkClose \o <<"<","/","a",">">>

DescNoClose == MarkAbstract \o <<" ">> \o Rep("m", MinLen)

DescNoAbstract == Rep("m", MinLen) \o <<" ">> \o MarkClose

FilterDescs ==
    {Rep("d", MinLen - 1), Rep("d", MinLen), DescPlain, DescMarked, DescMarkedTwice,
     DescMarkedTagged, DescNoClose, DescNoAbstract}

\* every title with one description under LinkB, every description with one
\* title under LinkA, and a short and a "review" title with the short description
FilterEntries ==
    {[title |-> t, link |-> LinkB, description |-> DescPlain] : t \in FilterTitles}
        \cup {[title |-> TitleA, link |-> LinkA, description |-> d] : d \in FilterDescs}
        \cup {[title |-> t, link |-> LinkC, description |-> Rep("d", MinLen - 1)] :
                  t \in {SubSeq(TitleA, 1, MinLen - 1),
                         <<"R","E","V","I","E","W"," ">> \o Rep("r", MinLen)}}

\* the feeds that hold at most two of these entries
FilterFeeds == FeedsOver(FilterEntries, 2)

InitFilter == InitWith({Missing}) /\ fetched \in FilterFeeds

NextFilter ==
    \/ GetRssFeedOf
    \/ FilterResults

SpecFilter == InitFilter /\ [][NextFilter]_vars

\* C17: a paper of Sociological Science that filter_results admits has, as
\* its description, the text between the first "Abstract" and the last
\* "Close" of the fetched description without its tags, trimmed, when both
\* markers are there, and that text trimmed when one is missing.
C17_BetweenMarkers ==
    pc = "filtered" =>
        \A i \in DOMAIN pull : \A n \in DOMAIN results :
            (pull[i].journal = "Sociological Science" /\ results[n].link = pull[i].link) =>
                LET t     == StripTags(results[n].description)
                    start == Find(t, MarkAbstract)
                    end   == RFind(t, MarkClose)
                IN  pull[i].description =
                        IF start >= 0 /\ end >= 0
                        THEN Strip(Slice(t, start + 8, end))
                        ELSE Strip(t)

\* a and b are the same character, or the same letter in two cases
SameLetter(a, b) ==
    \/ a = b
    \/ \E n \in DOMAIN LowerChars : {a, b} = {LowerChars[n], UpperChars[n]}

\* title starts with the word, whatever the case of its letters
StartsNoCase(title, word) ==
    /\ Len(title) >= Len(word)
    /\ \A n \in DOMAIN word : SameLetter(title[n], word[n])

\* C18: is_valid_paper is false exactly for a title of fewer than 50
\* characters, a description of fewer than 50 characters, or a title that
\* starts with "review" or "corrigendum" in any case, and filter_results
\* admits exactly the other items: a title of 49 characters is rejected, a
\* title of 50 with a description of 50 or more is admitted.
C18_ValidityRule ==
    pc = "filtered" =>
        \A n \in DOMAIN results :
            LET v == results[n]
                rejected ==
                    \/ Len(v.title) < 50
                    \/ Len(v.description) < 50
                    \/ StartsNoCase(v.title, <<"r","e","v","i","e","w">>)
                    \/ StartsNoCase(v.title, <<"c","o","r","r","i","g","e","n","d","u","m">>)
            IN  /\ is_valid_paper(v.title, v.description) <=> ~rejected
                /\ v.link \in SeqKeys(pull) <=> ~rejected
                /\ Len(v.title) = 49 => v.link \notin SeqKeys(pull)
                /\ (Len(v.title) = 50 /\ Len(v.description) >= 50) => v.link \in SeqKeys(pull)

\* of two fetched items with descriptions of 50 characters or more, the one
\* with a title of 49 characters was rejected and the one with a title of 50
\* was admitted
C18_Witness ==
    /\ pc = "filtered"
    /\ \E m, n \in DOMAIN results :
          /\ Len(results[m].title) = 49
          /\ Len(results[m].description) >= 50
          /\ results[m].link \notin SeqKeys(pull)
          /\ Len(results[n].title) = 50
          /\ Len(results[n].description) = 50
          /\ results[n].link \in SeqKeys(pull)

=============================================================================
